---- MODULE Spec2Model ----
(***************************************************************************)
(* PRISM Brain: the live probability store with its audit trail            *)
(* (full_calculator_live.py) and the calculator service's request          *)
(* handlers (full_calculator.py).                                          *)
(*                                                                         *)
(* Numbers.  Probabilities are Python floats in the code; here they are    *)
(* fixed-point integers, PScale units to one percentage point, and a       *)
(* multiplier is an integer number of hundredths (1.15 is 115).  A product *)
(* of a whole-number baseline and at most two two-decimal multipliers is   *)
(* exact in this representation.  The calculator's floats are fractions   *)
(* in lowest terms, << numerator, denominator >>, so its arithmetic is the *)
(* exact one; the amounts it rounds to two decimals are integers of cents  *)
(* and cascading_percentage is an integer of tenths of a percent.          *)
(*                                                                         *)
(* Scheduling.  Every handler of the live service is an `async def` that   *)
(* never awaits (the calculator's upload handler awaits only the read of   *)
(* its own file and shares no state), so the event loop runs each handler  *)
(* to completion before the next one starts: one handler is one action.    *)
(* The startup event runs the same update as the update endpoint.  What a  *)
(* handler leaves on disk when                                             *)
(* the process dies in the middle of it is given by the handler's trace,   *)
(* the sequence of store states after each of its statements.              *)
(***************************************************************************)
EXTENDS Integers, Sequences, FiniteSets, TLC

VARIABLES
    risks,          \* store.risks: risk id -> Risk
    updates,        \* store.updates: the audit log in memory
    signals,        \* store.signals: the signal history in memory
    risks_file,     \* data/risks_live.json
    updates_file,   \* data/probability_updates.json ("no file" reads as empty)
    signals_file,   \* data/signals_history.json     ("no file" reads as empty)
    now,            \* the wall clock read by datetime.now()
    uuids,          \* how many uuid4 values have been drawn
    request,        \* the request or store call handled last, with its arguments
    response        \* its outcome: what was returned or raised

vars == <<risks, updates, signals, risks_file, updates_file, signals_file,
          now, uuids, request, response>>

(***************************************************************************)
(* Bounds of the exploration.                                              *)
(***************************************************************************)
\* the clock stops the exploration: no writing call starts at MaxTime or later
MaxTime == 4
\* in the long-life specification, no run starts at MaxRuns or later: the
\* shipped collectors bring 4 signals a run, 252 runs bring 1008
MaxRuns == 253
\* a calculation request carries at most MaxAssessments assessments
MaxAssessments == 3

(***************************************************************************)
(* Units and generic helpers.                                              *)
(***************************************************************************)
PScale == 100 * 100

Pct(n) == n * PScale

Min2(a, b) == IF a < b THEN a ELSE b

Max2(a, b) == IF a > b THEN a ELSE b

Last(s) == s[Len(s)]

IsPrefix(s, t) == Len(s) <= Len(t) /\ SubSeq(t, 1, Len(s)) = s

\* s[-n:] of Python
LastN(s, n) == IF Len(s) <= n THEN s ELSE SubSeq(s, Len(s) - n + 1, Len(s))

\* s[:n] of Python: a negative n counts from the end
FirstN(s, n) ==
    IF n < 0
    THEN SubSeq(s, 1, Len(s) + n)
    ELSE IF Len(s) <= n THEN s ELSE SubSeq(s, 1, n)

RECURSIVE Concat(_)
Concat(ss) == IF ss = <<>> THEN <<>> ELSE Head(ss) \o Concat(Tail(ss))

Range(s) == {s[i] : i \in 1..Len(s)}

(***************************************************************************)
(* The baseline risk database of the live service.                         *)
(***************************************************************************)
RiskOrder ==
    <<"P1.1", "P1.2", "P2.1", "P3.1", "S1.1", "S2.1", "D1.1", "D1.2",
      "D2.1", "D3.1", "O1.1", "O2.1", "O3.1">>

RiskIds == Range(RiskOrder)

baseline_risks ==
    [r \in RiskIds |->
        CASE r = "P1.1" -> [domain |-> "Physical",    probability_baseline |-> Pct(12)]
          [] r = "P1.2" -> [domain |-> "Physical",    probability_baseline |-> Pct(25)]
          [] r = "P2.1" -> [domain |-> "Physical",    probability_baseline |-> Pct(35)]
          [] r = "P3.1" -> [domain |-> "Physical",    probability_baseline |-> Pct(45)]
          [] r = "S1.1" -> [domain |-> "Structural",  probability_baseline |-> Pct(40)]
          [] r = "S2.1" -> [domain |-> "Structural",  probability_baseline |-> Pct(30)]
          [] r = "D1.1" -> [domain |-> "Digital",     probability_baseline |-> Pct(55)]
          [] r = "D1.2" -> [domain |-> "Digital",     probability_baseline |-> Pct(48)]
          [] r = "D2.1" -> [domain |-> "Digital",     probability_baseline |-> Pct(15)]
          [] r = "D3.1" -> [domain |-> "Digital",     probability_baseline |-> Pct(42)]
          [] r = "O1.1" -> [domain |-> "Operational", probability_baseline |-> Pct(38)]
          [] r = "O2.1" -> [domain |-> "Operational", probability_baseline |-> Pct(22)]
          [] r = "O3.1" -> [domain |-> "Operational", probability_baseline |-> Pct(18)]]

\* Risk(...) as _initialize_baseline_risks builds it at time t
NewRisk(r, t) ==
    [id                   |-> r,
     domain               |-> baseline_risks[r].domain,
     probability_baseline |-> baseline_risks[r].probability_baseline,
     probability_live     |-> baseline_risks[r].probability_baseline,
     last_updated         |-> t,
     update_count         |-> 0]

\* A risk id no catalog holds, for the not-found paths
UnknownRiskId == "X9.9"

(***************************************************************************)
(* Signals and the signal collector.                                       *)
(***************************************************************************)
Mult_CISA == 115
Mult_News == 110
Mult_Weather == 108
Mult_GDELT == 105
\* Signal.multiplier: Field(ge=0.5, le=3.0)
MultiplierMin == 50
MultiplierMax == 300

Signal(source, signal_type, severity, multiplier, description, t, risk_ids) ==
    [source      |-> source,
     signal_type |-> signal_type,
     severity    |-> severity,
     multiplier  |-> multiplier,
     description |-> description,
     timestamp   |-> t,
     risk_ids    |-> risk_ids]

collect_cisa_signals(t) ==
    << Signal("CISA", "alert", "high", Mult_CISA,
              "ransomware campaign targeting ICS", t, <<"D1.1", "D1.2">>) >>

collect_news_signals(t) ==
    << Signal("Google News", "mention", "medium", Mult_News,
              "trade tensions coverage", t, <<"S1.1">>) >>

collect_weather_signals(t) ==
    << Signal("OpenWeatherMap", "event", "medium", Mult_Weather,
              "heat wave forecast", t, <<"P3.1">>) >>

collect_gdelt_signals(t) ==
    << Signal("GDELT", "event", "low", Mult_GDELT,
              "supply chain disruptions", t, <<"O1.1", "O3.1">>) >>

collect_usgs_signals(t) == << >>

\* What the five sources return to one collection at time t.  The shipped
\* collectors stand in for the external feeds with fixed replies
\* (SimulatedReplies); the other replies are what a feed may send instead:
\* a CISA alert on other risks (one of them in no catalog) and a CISA
\* alert with the largest multiplier a Signal admits.
SimulatedReplies(t) ==
    [cisa    |-> collect_cisa_signals(t),
     news    |-> collect_news_signals(t),
     weather |-> collect_weather_signals(t),
     gdelt   |-> collect_gdelt_signals(t),
     usgs    |-> collect_usgs_signals(t)]

CisaReplies(t) ==
    { collect_cisa_signals(t),
      << Signal("CISA", "alert", "high", Mult_CISA,
                "advisory on trade-finance systems", t, <<"S1.1", UnknownRiskId>>) >>,
      << Signal("CISA", "alert", "critical", MultiplierMax,
                "active exploitation of ICS", t, <<"D1.1">>) >> }

NewsReplies(t) == { collect_news_signals(t) }

SourceReplies(t) ==
    { [SimulatedReplies(t) EXCEPT !.cisa = c, !.news = n] :
        c \in CisaReplies(t), n \in NewsReplies(t) }

\* collect_all_signals over the replies of the sources
collect_all_signals(replies) ==
    Concat(<< replies.cisa, replies.news, replies.weather, replies.gdelt,
              replies.usgs >>)

sources_checked == <<"CISA", "Google News", "OpenWeatherMap", "GDELT", "USGS">>

(***************************************************************************)
(* Grouping of signals by risk and the multiplicative model.               *)
(***************************************************************************)
\* the (risk_id, signal) pairs in the order the two nested loops visit them
RECURSIVE SignalPairs(_)
SignalPairs(sigs) ==
    IF sigs = << >> THEN << >>
    ELSE [i \in 1..Len(Head(sigs).risk_ids) |-> << Head(sigs).risk_ids[i], Head(sigs) >>]
         \o SignalPairs(Tail(sigs))

RECURSIVE FirstOccurrences(_, _)
FirstOccurrences(s, seen) ==
    IF s = << >> THEN << >>
    ELSE IF Head(s) \in seen THEN FirstOccurrences(Tail(s), seen)
    ELSE << Head(s) >> \o FirstOccurrences(Tail(s), seen \cup {Head(s)})

\* risk_signals: keys in insertion order, and the list kept under each key
GroupSignals(sigs) ==
    LET pairs == SignalPairs(sigs)
        keys  == FirstOccurrences([i \in 1..Len(pairs) |-> pairs[i][1]], {})
        Of(r) == LET Named(p) == p[1] = r
                     mine == SelectSeq(pairs, Named)
                 IN  [i \in 1..Len(mine) |-> mine[i][2]]
    IN  [order |-> keys, group |-> [r \in Range(keys) |-> Of(r)]]

\* new_prob *= signal.multiplier
Multiply_AddsPoints(p, multiplier) == p + Pct(multiplier - 100)

Multiply(p, multiplier) == (p * multiplier) \div 100

RECURSIVE ApplyMultipliers(_, _)
ApplyMultipliers(p, group) ==
    IF group = << >> THEN p
    ELSE ApplyMultipliers(Multiply(p, Head(group).multiplier), Tail(group))

\* the update reason: how many signals, and each one's source and description
UpdateReason(group) ==
    [count |-> Len(group),
     parts |-> [i \in 1..Len(group) |-> << group[i].source, group[i].description >>]]

(***************************************************************************)
(* The DataStore.  A store value S holds the three collections in memory,  *)
(* the three JSON files, and the count of uuids drawn.                     *)
(***************************************************************************)
TheStore ==
    [risks        |-> risks,
     updates      |-> updates,
     signals      |-> signals,
     risks_file   |-> risks_file,
     updates_file |-> updates_file,
     signals_file |-> signals_file,
     uuids        |-> uuids]

\* json.dump(..., default=str) writes a datetime as its string; pydantic
\* parses the string back when the model is rebuilt from the file.
DumpTime(t) == << "datetime", t >>

ParseTime(j) == j[2]

DumpSignal(s) == [s EXCEPT !.timestamp = DumpTime(@)]

ParseSignal(j) == [j EXCEPT !.timestamp = ParseTime(@)]

DumpSignals(ss) == [i \in 1..Len(ss) |-> DumpSignal(ss[i])]

ParseSignals(js) == [i \in 1..Len(js) |-> ParseSignal(js[i])]

DumpRisk(r) == [r EXCEPT !.last_updated = DumpTime(@)]

ParseRisk(j) == [j EXCEPT !.last_updated = ParseTime(@)]

DumpUpdate(u) ==
    [u EXCEPT !.timestamp = DumpTime(@), !.signals = DumpSignals(@)]

ParseUpdate(j) ==
    [j EXCEPT !.timestamp = ParseTime(@), !.signals = ParseSignals(@)]

\* Risk: probability_baseline and probability_live are Field(ge=0, le=100),
\* checked when a Risk is constructed (not when a field is assigned)
ValidRisk(r) ==
    /\ 0 <= r.probability_baseline /\ r.probability_baseline <= Pct(100)
    /\ 0 <= r.probability_live /\ r.probability_live <= Pct(100)

ValidSignal(s) == MultiplierMin <= s.multiplier /\ s.multiplier <= MultiplierMax

\* _save_signals keeps the last SignalsKept signals
SignalsKept == 1000

_save_risks(S) ==
    [S EXCEPT !.risks_file = [i \in 1..Len(RiskOrder) |-> DumpRisk(S.risks[RiskOrder[i]])]]

_save_updates_KeepsRecent(S) ==
    [S EXCEPT !.updates_file =
        LET recent == LastN(S.updates, 5)
        IN  [i \in 1..Len(recent) |-> DumpUpdate(recent[i])]]

_save_updates(S) ==
    [S EXCEPT !.updates_file = [i \in 1..Len(S.updates) |-> DumpUpdate(S.updates[i])]]

_save_signals(S) ==
    [S EXCEPT !.signals_file = DumpSignals(LastN(S.signals, SignalsKept))]

\* the risks a risks file holds, as _load_data rebuilds the dictionary
LoadedRisks(file) ==
    [r \in {file[i].id : i \in 1..Len(file)} |->
        ParseRisk(file[CHOOSE i \in 1..Len(file) :
                         /\ file[i].id = r
                         /\ \A k \in (i + 1)..Len(file) : file[k].id # r])]

\* _load_data with the three files present (the risks file exists from the
\* first construction on; an absent updates or signals file reads as empty)
_load_data(S) ==
    [S EXCEPT !.risks   = LoadedRisks(S.risks_file),
              !.updates = [i \in 1..Len(S.updates_file) |-> ParseUpdate(S.updates_file[i])],
              !.signals = ParseSignals(S.signals_file)]

\* every model _load_data constructs passes validation
Loadable(S) ==
    /\ \A i \in 1..Len(S.risks_file) : ValidRisk(ParseRisk(S.risks_file[i]))
    /\ \A i \in 1..Len(S.signals_file) : ValidSignal(S.signals_file[i])
    /\ \A i \in 1..Len(S.updates_file) :
          \A k \in 1..Len(S.updates_file[i].signals) :
              ValidSignal(S.updates_file[i].signals[k])

add_signals_trace_SkipsKnown(S, sigs) ==
    LET Known(x) == \E i \in 1..Len(S.signals) :
                        /\ S.signals[i].source = x.source
                        /\ S.signals[i].description = x.description
        New(x) == ~Known(x)
        S1 == [S EXCEPT !.signals = @ \o SelectSeq(sigs, New)]
    IN  << S1, _save_signals(S1) >>

\* add_signals, statement by statement
add_signals_trace(S, sigs) ==
    LET S1 == [S EXCEPT !.signals = @ \o sigs]
    IN  << S1, _save_signals(S1) >>

add_signals(S, sigs) == Last(add_signals_trace(S, sigs))

\* add_update
add_update(S, update) == _save_updates([S EXCEPT !.updates = Append(@, update)])

Clamp_UpperOnly(p) == Min2(Pct(100), p)

\* max(0.0, min(100.0, new_probability))
Clamp(p) == Max2(0, Min2(Pct(100), p))

NewUpdate_BeforeReadLate(S, risk_id, new_probability, sigs, reason, sources, t) ==
    [id                   |-> S.uuids + 1,
     risk_id              |-> risk_id,
     timestamp            |-> t,
     probability_before   |-> Clamp(new_probability),
     probability_after    |-> Clamp(new_probability),
     update_reason        |-> reason,
     signals              |-> sigs,
     data_sources_checked |-> sources]

\* the ProbabilityUpdate that update_risk_probability creates
NewUpdate(S, risk_id, new_probability, sigs, reason, sources, t) ==
    [id                   |-> S.uuids + 1,
     risk_id              |-> risk_id,
     timestamp            |-> t,
     probability_before   |-> S.risks[risk_id].probability_live,
     probability_after    |-> Clamp(new_probability),
     update_reason        |-> reason,
     signals              |-> sigs,
     data_sources_checked |-> sources]

\* update_risk_probability for a risk of the store, statement by statement:
update_risk_probability_trace_SavesEachField(S, risk_id, new_probability, sigs, reason, sources, t) ==
    LET update == NewUpdate(S, risk_id, new_probability, sigs, reason, sources, t)
        S0 == [S  EXCEPT !.uuids = @ + 1]
        S1 == _save_risks([S0 EXCEPT !.risks[risk_id].probability_live =
                                         update.probability_after])
        S2 == _save_risks([S1 EXCEPT !.risks[risk_id].last_updated = t])
        S3 == [S2 EXCEPT !.risks[risk_id].update_count = @ + 1]
        S4 == _save_risks(S3)
        S5 == add_update(S4, update)
    IN  << S0, S1, S2, S3, S4, S5 >>

\* the store after the audit record is created, after each of the three
\* assignments to the risk, after _save_risks and after add_update
update_risk_probability_trace(S, risk_id, new_probability, sigs, reason, sources, t) ==
    LET update == NewUpdate(S, risk_id, new_probability, sigs, reason, sources, t)
        S0 == [S  EXCEPT !.uuids = @ + 1]
        S1 == [S0 EXCEPT !.risks[risk_id].probability_live = update.probability_after]
        S2 == [S1 EXCEPT !.risks[risk_id].last_updated = t]
        S3 == [S2 EXCEPT !.risks[risk_id].update_count = @ + 1]
        S4 == _save_risks(S3)
        S5 == add_update(S4, update)
    IN  << S0, S1, S2, S3, S4, S5 >>

update_risk_probability_SilentNoOp(S, risk_id, new_probability, sigs, reason, sources, t) ==
    IF risk_id \notin DOMAIN S.risks
    THEN [raised |-> "none", value |-> << "ignored", risk_id >>, store |-> S]
    ELSE LET after == Last(update_risk_probability_trace(S, risk_id, new_probability,
                                                         sigs, reason, sources, t))
         IN  [raised |-> "none", value |-> Last(after.updates), store |-> after]

\* update_risk_probability: what it raises or returns, and the store it leaves
update_risk_probability(S, risk_id, new_probability, sigs, reason, sources, t) ==
    IF risk_id \notin DOMAIN S.risks
    THEN [raised |-> "ValueError", value |-> << "Risk not found", risk_id >>, store |-> S]
    ELSE LET after == Last(update_risk_probability_trace(S, risk_id, new_probability,
                                                         sigs, reason, sources, t))
         IN  [raised |-> "none", value |-> Last(after.updates), store |-> after]

(***************************************************************************)
(* ProbabilityEngine.update_all_probabilities.                             *)
(***************************************************************************)
StartingProbability_Live(risk) == risk.probability_live

\* new_prob = risk.probability_baseline
StartingProbability(risk) == risk.probability_baseline

\* the loop over risk_signals.items(), statement by statement
RECURSIVE update_loop_trace(_, _, _, _)
update_loop_trace(S, keys, group, t) ==
    IF keys = << >> THEN << >>
    ELSE LET risk_id == Head(keys) IN
         IF risk_id \notin DOMAIN S.risks
         THEN update_loop_trace(S, Tail(keys), group, t)
         ELSE LET new_prob == ApplyMultipliers(StartingProbability(S.risks[risk_id]),
                                               group[risk_id])
                  tr == update_risk_probability_trace(
                            S, risk_id, new_prob, group[risk_id],
                            UpdateReason(group[risk_id]), sources_checked, t)
              IN  tr \o update_loop_trace(Last(tr), Tail(keys), group, t)

update_all_probabilities_trace_ResetsUnnamed(S, sigs, t) ==
    LET stored  == add_signals_trace(S, sigs)
        grouped == GroupSignals(sigs)
        Unnamed(r) == r \notin Range(grouped.order)
        keys    == grouped.order \o SelectSeq(RiskOrder, Unnamed)
        group   == [r \in Range(keys) |->
                      IF r \in Range(grouped.order) THEN grouped.group[r] ELSE << >>]
    IN  stored \o update_loop_trace(Last(stored), keys, group, t)

\* update_all_probabilities, statement by statement: the signals are stored,
\* then the loop runs over the risk ids the signals name
update_all_probabilities_trace(S, sigs, t) ==
    LET stored  == add_signals_trace(S, sigs)
        grouped == GroupSignals(sigs)
    IN  stored \o update_loop_trace(Last(stored), grouped.order, grouped.group, t)

\* the "updates" list of the run's result: one entry per audit record the
\* run appended to the log of S
RunUpdates(S, after) ==
    [i \in 1..(Len(after.updates) - Len(S.updates)) |->
        LET u == after.updates[Len(S.updates) + i] IN
        [risk_id            |-> u.risk_id,
         probability_before |-> u.probability_before,
         probability_after  |-> u.probability_after,
         change             |-> u.probability_after - u.probability_before,
         signals_count      |-> Len(u.signals)]]

\* update_all_probabilities: the store it leaves and the summary it returns
update_all_probabilities(S, sigs, t) ==
    LET after == Last(update_all_probabilities_trace(S, sigs, t))
    IN  [store  |-> after,
         result |-> [timestamp         |-> t,
                     signals_collected |-> Len(sigs),
                     risks_updated     |-> Len(RunUpdates(S, after)),
                     sources_checked   |-> sources_checked,
                     updates           |-> RunUpdates(S, after)]]

(***************************************************************************)
(* Read paths of the live service.                                         *)
(***************************************************************************)
\* sorted(..., reverse=True) on (key, item) pairs: descending by key, items
\* with equal keys in their original order
RECURSIVE InsertByKeyDesc(_, _)
InsertByKeyDesc(x, s) ==
    IF s = << >> THEN << x >>
    ELSE IF Head(s)[1] >= x[1] THEN << Head(s) >> \o InsertByKeyDesc(x, Tail(s))
    ELSE << x >> \o s

RECURSIVE SortByKeyDesc(_)
SortByKeyDesc(pairs) ==
    IF pairs = << >> THEN << >>
    ELSE InsertByKeyDesc(Last(pairs), SortByKeyDesc(SubSeq(pairs, 1, Len(pairs) - 1)))

Items(pairs) == [i \in 1..Len(pairs) |-> pairs[i][2]]

\* one entry of GET /api/risks/live
LiveEntry(risk) ==
    [id                   |-> risk.id,
     domain               |-> risk.domain,
     probability_baseline |-> risk.probability_baseline,
     probability_live     |-> risk.probability_live,
     change_from_baseline |-> risk.probability_live - risk.probability_baseline,
     last_updated         |-> risk.last_updated,
     update_count         |-> risk.update_count]

get_live_risks(S) ==
    LET risks_data == [i \in 1..Len(RiskOrder) |-> LiveEntry(S.risks[RiskOrder[i]])]
        keyed == [i \in 1..Len(risks_data) |->
                     << risks_data[i].probability_live, risks_data[i] >>]
    IN  [risks |-> Items(SortByKeyDesc(keyed)), total_count |-> Len(risks_data)]

\* DataStore.get_risk_history
store_get_risk_history(S, risk_id, limit) ==
    LET Mine(u) == u.risk_id = risk_id
        history == SelectSeq(S.updates, Mine)
        keyed == [i \in 1..Len(history) |-> << history[i].timestamp, history[i] >>]
    IN  FirstN(Items(SortByKeyDesc(keyed)), limit)

\* GET /api/domains: the risks under each domain, in store order
get_domains(S) ==
    LET ids == [i \in 1..Len(RiskOrder) |-> S.risks[RiskOrder[i]].domain]
        domains == FirstOccurrences(ids, {})
        Of(d) == LET In(r) == S.risks[r].domain = d
                     mine == SelectSeq(RiskOrder, In)
                 IN  [domain |-> d,
                      risk_count |-> Len(mine),
                      risks |-> [i \in 1..Len(mine) |->
                                    [id |-> mine[i],
                                     probability_baseline |-> S.risks[mine[i]].probability_baseline,
                                     probability_live |-> S.risks[mine[i]].probability_live]]]
    IN  [i \in 1..Len(domains) |-> Of(domains[i])]

(***************************************************************************)
(* The calculator service: its risk table and two of its handlers.         *)
(***************************************************************************)
RISK_DATABASE ==
    << [id |-> "P1.1", domain |-> "Physical",    probability_current |-> Pct(12), confidence_level |-> "Medium"],
       [id |-> "P1.2", domain |-> "Physical",    probability_current |-> Pct(25), confidence_level |-> "High"],
       [id |-> "P2.1", domain |-> "Physical",    probability_current |-> Pct(35), confidence_level |-> "High"],
       [id |-> "P3.1", domain |-> "Physical",    probability_current |-> Pct(45), confidence_level |-> "High"],
       [id |-> "S1.1", domain |-> "Structural",  probability_current |-> Pct(40), confidence_level |-> "Medium"],
       [id |-> "S2.1", domain |-> "Structural",  probability_current |-> Pct(30), confidence_level |-> "Medium"],
       [id |-> "D1.1", domain |-> "Digital",     probability_current |-> Pct(55), confidence_level |-> "High"],
       [id |-> "D1.2", domain |-> "Digital",     probability_current |-> Pct(48), confidence_level |-> "High"],
       [id |-> "D2.1", domain |-> "Digital",     probability_current |-> Pct(15), confidence_level |-> "Medium"],
       [id |-> "O1.1", domain |-> "Operational", probability_current |-> Pct(38), confidence_level |-> "Medium"],
       [id |-> "O2.1", domain |-> "Operational", probability_current |-> Pct(22), confidence_level |-> "Low"],
       [id |-> "O3.1", domain |-> "Operational", probability_current |-> Pct(18), confidence_level |-> "Medium"],
       [id |-> "D3.1", domain |-> "Digital",     probability_current |-> Pct(42), confidence_level |-> "High"] >>

\* what reaches the client when a handler raises HTTPException
HttpError(op, status_code, detail) ==
    [op |-> op, raised |-> "HTTPException", status |-> status_code, body |-> detail]

HttpOk(op, body) == [op |-> op, raised |-> "none", status |-> 200, body |-> body]

\* the outcome of a call made on the store itself, outside any request
Returned(op, value) == [op |-> op, raised |-> "none", status |-> 0, body |-> value]

Raised(op, exception, detail) ==
    [op |-> op, raised |-> exception, status |-> 0, body |-> detail]

\* GET /api/risks/{risk_id} of the calculator service
get_risk(risk_id) ==
    LET Is(r) == r.id = risk_id
        found == SelectSeq(RISK_DATABASE, Is)
    IN  IF found = << >>
        THEN HttpError("get_risk", 404, << "Risk not found", risk_id >>)
        ELSE HttpOk("get_risk", Head(found))

required_fields == << "client_name", "industry", "processes", "assessments" >>

\* An uploaded file: text that is no JSON, a JSON number, or a JSON object
\* with some of the fields, its lists having two entries each.
UploadContents ==
    { [json |-> "invalid", fields |-> {}], [json |-> "number", fields |-> {}] }
    \cup { [json |-> "object", fields |-> Range(required_fields) \ {f}] :
             f \in Range(required_fields) }
    \cup { [json |-> "object", fields |-> Range(required_fields)],
           [json |-> "object", fields |-> {}] }

\* the body of upload_client_data's try block: the exception it raises, or
\* the value it returns
upload_try_body(content) ==
    IF content.json = "invalid"
    THEN [raised |-> "JSONDecodeError", status_code |-> 0, detail |-> "no JSON"]
    ELSE IF content.json = "number"
    THEN [raised |-> "TypeError", status_code |-> 0, detail |-> "not iterable"]
    ELSE LET Missing(f) == f \notin content.fields
             missing == SelectSeq(required_fields, Missing)
         IN  IF missing # << >>
             THEN [raised |-> "HTTPException", status_code |-> 400,
                   detail |-> << "Missing required field", Head(missing) >>]
             ELSE [raised |-> "none", status_code |-> 200,
                   detail |-> [status |-> "success", processes_count |-> 2,
                               assessments_count |-> 2]]

\* the except clauses, in order: json.JSONDecodeError, then Exception, which
\* HTTPException is a subclass of
upload_client_data_Reraises(content) ==
    LET out == upload_try_body(content) IN
    IF out.raised = "none" THEN HttpOk("upload_client_data", out.detail)
    ELSE IF out.raised = "JSONDecodeError"
    THEN HttpError("upload_client_data", 400, "Invalid JSON format")
    ELSE IF out.raised = "HTTPException"
    THEN HttpError("upload_client_data", out.status_code, out.detail)
    ELSE HttpError("upload_client_data", 500, << "str", out.raised, out.status_code >>)

upload_client_data(content) ==
    LET out == upload_try_body(content) IN
    IF out.raised = "none" THEN HttpOk("upload_client_data", out.detail)
    ELSE IF out.raised = "JSONDecodeError"
    THEN HttpError("upload_client_data", 400, "Invalid JSON format")
    ELSE HttpError("upload_client_data", 500, << "str", out.raised, out.status_code >>)

(***************************************************************************)
(* The calculator's arithmetic.  The code computes in Python floats; here  *)
(* a number is an exact fraction << numerator, denominator >> in lowest    *)
(* terms with a positive denominator, and round(x, n) rounds to the        *)
(* nearest multiple of 10^-n, a tie going to the even one.                 *)
(***************************************************************************)
Abs(n) == IF n < 0 THEN 0 - n ELSE n

RECURSIVE GCD(_, _)
GCD(a, b) == IF b = 0 THEN Abs(a) ELSE GCD(b, a % Abs(b))

\* the fraction n/d, d # 0
Rat(n, d) ==
    LET g == GCD(n, d)
    IN  IF d < 0 THEN << (0 - n) \div g, (0 - d) \div g >> ELSE << n \div g, d \div g >>

Whole(n) == << n, 1 >>

\* a * b
RMul(a, b) ==
    LET g1 == GCD(a[1], b[2])
        g2 == GCD(b[1], a[2])
    IN  Rat((a[1] \div g1) * (b[1] \div g2), (a[2] \div g2) * (b[2] \div g1))

\* a + b
RAdd(a, b) ==
    LET g == GCD(a[2], b[2])
    IN  Rat(a[1] * (b[2] \div g) + b[1] * (a[2] \div g), (a[2] \div g) * b[2])

\* a - b
RSub(a, b) == RAdd(a, << 0 - b[1], b[2] >>)

\* a <= b
RLe(a, b) == RSub(b, a)[1] >= 0

\* round(n / d, 0) for d > 0, as an integer
RoundDiv(n, d) ==
    LET q == n \div d
        r == n % d
    IN  IF 2 * r < d THEN q
        ELSE IF 2 * r > d THEN q + 1
        ELSE IF q % 2 = 0 THEN q ELSE q + 1

\* round(x, 2) of an amount in EUR, as a whole number of cents
round2(x) == LET c == RMul(x, Whole(100)) IN RoundDiv(c[1], c[2])

(***************************************************************************)
(* RiskCalculator.                                                         *)
(***************************************************************************)
calculate_base_exposure_Clamped(criticality_eur, vulnerability, resilience, probability) ==
    LET Unit(x) == IF RLe(x, Whole(0)) THEN Whole(0)
                   ELSE IF RLe(Whole(1), x) THEN Whole(1) ELSE x
        v == Unit(RMul(vulnerability, Rat(1, 100)))
        r == Unit(RMul(resilience, Rat(1, 100)))
        p == Unit(RMul(probability, Rat(1, 100)))
        daily_exposure == RMul(RMul(RMul(criticality_eur, v), RSub(Whole(1), r)), p)
    IN  RMul(daily_exposure, Whole(365))

calculate_base_exposure_ResilienceAsFactor(criticality_eur, vulnerability, resilience, probability) ==
    LET v == RMul(vulnerability, Rat(1, 100))
        r == RMul(resilience, Rat(1, 100))
        p == RMul(probability, Rat(1, 100))
        daily_exposure == RMul(RMul(RMul(criticality_eur, v), r), p)
    IN  RMul(daily_exposure, Whole(365))

calculate_base_exposure(criticality_eur, vulnerability, resilience, probability) ==
    LET v == RMul(vulnerability, Rat(1, 100))
        r == RMul(resilience, Rat(1, 100))
        p == RMul(probability, Rat(1, 100))
        daily_exposure == RMul(RMul(RMul(criticality_eur, v), RSub(Whole(1), r)), p)
        annual_exposure == RMul(daily_exposure, Whole(365))
    IN  annual_exposure

calculate_cascading_exposure(upstream_exposure, dependency_strength, downstream_resilience) ==
    LET r == RMul(downstream_resilience, Rat(1, 100))
        cascading == RMul(RMul(upstream_exposure, dependency_strength), RSub(Whole(1), r))
    IN  cascading

\* dict.get on a lookup built from a list: the last entry under the key, or
\* no entry
LookupGet(entries, key) ==
    LET Mine(e) == e.id = key
        mine == SelectSeq(entries, Mine)
    IN  IF mine = << >> THEN << >> ELSE << Last(mine) >>

RECURSIVE cascading_over_KeepsLast(_, _, _, _)
cascading_over_KeepsLast(deps, assessments, assessment, base_exposure) ==
    IF deps = << >> THEN Whole(0)
    ELSE LET dep == Last(deps)
             Downstream(a) == /\ a.process_id = dep.downstream_process_id
                              /\ a.risk_id = assessment.risk_id
             downstream_assessments == SelectSeq(assessments, Downstream)
         IN  IF /\ dep.upstream_process_id = assessment.process_id
                /\ downstream_assessments # << >>
             THEN calculate_cascading_exposure(
                      base_exposure, dep.dependency_strength,
                      Whole(downstream_assessments[1].resilience))
             ELSE cascading_over_KeepsLast(SubSeq(deps, 1, Len(deps) - 1), assessments,
                                           assessment, base_exposure)

\* what reaches the processes downstream of process_id from exposure there,
\* followed over hops edges
RECURSIVE Propagated(_, _, _, _, _, _)
Propagated(all, deps, assessments, at, exposure, hops) ==
    IF deps = << >> \/ hops = 0 THEN Whole(0)
    ELSE LET dep == Head(deps)
             Downstream(a) == /\ a.process_id = dep.downstream_process_id
                              /\ a.risk_id = at.risk_id
             downstream_assessments == SelectSeq(assessments, Downstream)
             cascading ==
                 IF /\ dep.upstream_process_id = at.process_id
                    /\ downstream_assessments # << >>
                 THEN LET c == calculate_cascading_exposure(
                                   exposure, dep.dependency_strength,
                                   Whole(downstream_assessments[1].resilience))
                      IN  RAdd(c, Propagated(all, all, assessments,
                                             downstream_assessments[1], c, hops - 1))
                 ELSE Whole(0)
         IN  RAdd(cascading, Propagated(all, Tail(deps), assessments, at, exposure, hops))

cascading_over_TwoHops(deps, assessments, assessment, base_exposure) ==
    Propagated(deps, deps, assessments, assessment, base_exposure, 2)

\* the loop over client_data.dependencies for one assessment: what it adds
\* to cascading_exposure, dependency by dependency
RECURSIVE cascading_over(_, _, _, _)
cascading_over(deps, assessments, assessment, base_exposure) ==
    IF deps = << >> THEN Whole(0)
    ELSE LET dep == Head(deps)
             Downstream(a) == /\ a.process_id = dep.downstream_process_id
                              /\ a.risk_id = assessment.risk_id
             downstream_assessments == SelectSeq(assessments, Downstream)
             cascading ==
                 IF /\ dep.upstream_process_id = assessment.process_id
                    /\ downstream_assessments # << >>
                 THEN calculate_cascading_exposure(
                          base_exposure, dep.dependency_strength,
                          Whole(downstream_assessments[1].resilience))
                 ELSE Whole(0)
         IN  RAdd(cascading,
                  cascading_over(Tail(deps), assessments, assessment, base_exposure))

\* the exposure record of one assessment whose process and risk exist;
\* amounts in cents
exposure_record(client_data, use_cascading, assessment, process, risk) ==
    LET base_exposure ==
            calculate_base_exposure(Whole(process.criticality_eur_per_day),
                                    Whole(assessment.vulnerability),
                                    Whole(assessment.resilience),
                                    Rat(risk.probability_current, PScale))
        cascading_exposure ==
            IF use_cascading /\ client_data.dependencies # << >>
            THEN cascading_over(client_data.dependencies, client_data.assessments,
                                assessment, base_exposure)
            ELSE Whole(0)
        total_exposure == RAdd(base_exposure, cascading_exposure)
    IN  [risk_id                |-> risk.id,
         domain                 |-> risk.domain,
         process_id             |-> process.id,
         criticality            |-> process.criticality_eur_per_day,
         vulnerability          |-> assessment.vulnerability,
         resilience             |-> assessment.resilience,
         probability            |-> risk.probability_current,
         base_exposure_eur      |-> round2(base_exposure),
         cascading_exposure_eur |-> round2(cascading_exposure),
         total_exposure_eur     |-> round2(total_exposure),
         confidence_level       |-> risk.confidence_level]

RECURSIVE exposure_records_KeepsUnknownProcess(_, _, _)
exposure_records_KeepsUnknownProcess(client_data, use_cascading, todo) ==
    IF todo = << >> THEN << >>
    ELSE LET assessment == Head(todo)
             process == LookupGet(client_data.processes, assessment.process_id)
             risk == LookupGet(RISK_DATABASE, assessment.risk_id)
             rest == exposure_records_KeepsUnknownProcess(client_data, use_cascading,
                                                          Tail(todo))
         IN  IF risk = << >> THEN rest
             ELSE << exposure_record(
                         client_data, use_cascading, assessment,
                         IF process = << >>
                         THEN [id |-> assessment.process_id, criticality_eur_per_day |-> 0]
                         ELSE process[1],
                         risk[1]) >> \o rest

\* the loop over client_data.assessments: the records in input order
RECURSIVE exposure_records(_, _, _)
exposure_records(client_data, use_cascading, todo) ==
    IF todo = << >> THEN << >>
    ELSE LET assessment == Head(todo)
             process == LookupGet(client_data.processes, assessment.process_id)
             risk == LookupGet(RISK_DATABASE, assessment.risk_id)
             rest == exposure_records(client_data, use_cascading, Tail(todo))
         IN  IF process = << >> \/ risk = << >> THEN rest
             ELSE << exposure_record(client_data, use_cascading, assessment,
                                     process[1], risk[1]) >> \o rest

sort_exposures_AscendingReversed(exposures) ==
    LET ascending == Items(SortByKeyDesc([i \in 1..Len(exposures) |->
                              << 0 - exposures[i].total_exposure_eur, exposures[i] >>]))
    IN  [i \in 1..Len(ascending) |-> ascending[Len(ascending) + 1 - i]]

\* exposures.sort(key=total_exposure_eur, reverse=True)
sort_exposures(exposures) ==
    Items(SortByKeyDesc([i \in 1..Len(exposures) |->
                            << exposures[i].total_exposure_eur, exposures[i] >>]))

RECURSIVE SumOf(_)
SumOf(amounts) == IF amounts = << >> THEN 0 ELSE Head(amounts) + SumOf(Tail(amounts))

totals_by_MissesFirst(exposures, key, field) ==
    LET keys == FirstOccurrences([i \in 1..Len(exposures) |-> exposures[i][key]], {})
        Of(k) == LET Mine(e) == e[key] = k
                     mine == SelectSeq(exposures, Mine)
                 IN  [key            |-> k,
                      total_exposure |-> SumOf([i \in 1..Len(mine) - 1 |->
                                                   mine[i + 1][field]]),
                      risk_count     |-> Len(mine)]
    IN  [i \in 1..Len(keys) |-> Of(keys[i])]

\* domain_totals / process_totals: one entry per key in order of first
\* occurrence, each the running sum and the count of its records
totals_by(exposures, key, field) ==
    LET keys == FirstOccurrences([i \in 1..Len(exposures) |-> exposures[i][key]], {})
        Of(k) == LET Mine(e) == e[key] = k
                     mine == SelectSeq(exposures, Mine)
                 IN  [key            |-> k,
                      total_exposure |-> SumOf([i \in 1..Len(mine) |-> mine[i][field]]),
                      risk_count     |-> Len(mine)]
    IN  [i \in 1..Len(keys) |-> Of(keys[i])]

cascading_percentage_AsFraction(total_cascading, total_overall) ==
    IF total_overall > 0
    THEN LET ratio == RMul(Rat(total_cascading, total_overall), Whole(10))
         IN  RoundDiv(ratio[1], ratio[2])
    ELSE 0

\* round(total_cascading / total_overall * 100 if total_overall > 0 else 0, 1),
\* in tenths of a percent
cascading_percentage(total_cascading, total_overall) ==
    IF total_overall > 0
    THEN LET ratio == RMul(Rat(total_cascading, total_overall), Whole(1000))
         IN  RoundDiv(ratio[1], ratio[2])
    ELSE 0

calculate_all_exposures(client_data, use_cascading) ==
    LET exposures == sort_exposures(
                         exposure_records(client_data, use_cascading,
                                          client_data.assessments))
        Field(f) == [i \in 1..Len(exposures) |-> exposures[i][f]]
        total_base == SumOf(Field("base_exposure_eur"))
        total_cascading == SumOf(Field("cascading_exposure_eur"))
        total_overall == SumOf(Field("total_exposure_eur"))
    IN  [exposures  |-> exposures,
         summary    |-> [total_base_exposure      |-> total_base,
                         total_cascading_exposure |-> total_cascading,
                         total_overall_exposure   |-> total_overall,
                         total_risks_assessed     |-> Len(exposures),
                         cascading_percentage     |->
                             cascading_percentage(total_cascading, total_overall)],
         by_domain  |-> totals_by(exposures, "domain", "total_exposure_eur"),
         by_process |-> totals_by(exposures, "process_id", "total_exposure_eur")]

\* POST /api/calculate: nothing in calculate_all_exposures raises on a
\* validated request
calculate_risk_exposure(req) ==
    HttpOk("calculate_risk_exposure",
           calculate_all_exposures(req.client_data, req.use_cascading))

(***************************************************************************)
(* The state machine.                                                      *)
(***************************************************************************)
Install(S) ==
    /\ risks' = S.risks
    /\ updates' = S.updates
    /\ signals' = S.signals
    /\ risks_file' = S.risks_file
    /\ updates_file' = S.updates_file
    /\ signals_file' = S.signals_file
    /\ uuids' = S.uuids

StoreUnchanged ==
    UNCHANGED << risks, updates, signals, risks_file, updates_file, signals_file,
                 uuids >>

\* DataStore() with no data directory yet: _initialize_baseline_risks
FreshStore(t) ==
    _save_risks([risks        |-> [r \in RiskIds |-> NewRisk(r, t)],
                 updates      |-> << >>,
                 signals      |-> << >>,
                 risks_file   |-> << >>,
                 updates_file |-> << >>,
                 signals_file |-> << >>,
                 uuids        |-> 0])

Init ==
    /\ now = 1
    /\ risks = FreshStore(0).risks
    /\ updates = << >>
    /\ signals = << >>
    /\ risks_file = FreshStore(0).risks_file
    /\ updates_file = << >>
    /\ signals_file = << >>
    /\ uuids = 0
    /\ request = [op |-> "DataStore"]
    /\ response = Returned("DataStore", "initialized")

\* POST /api/probabilities/update (the startup event runs the same update).
\* The sources reply with one of replies, the update runs to its end, the
\* clock has moved on; no call starts at time limit or later.
Triggered(replies_set, limit) ==
    \E replies \in replies_set :
        LET run == update_all_probabilities(TheStore, collect_all_signals(replies), now)
        IN  /\ now < limit
            /\ Install(run.store)
            /\ request' = [op |-> "trigger_probability_update"]
            /\ response' = HttpOk("trigger_probability_update",
                                  [status |-> "completed", result |-> run.result])
            /\ now' = now + 1

trigger_probability_update == Triggered(SourceReplies(now), MaxTime)

\* the update as the shipped collectors drive it, over a long service life
trigger_with_shipped_collectors == Triggered({ SimulatedReplies(now) }, MaxRuns)

\* the arguments tried on DataStore.update_risk_probability called directly
DirectRiskIds == { "D1.1", UnknownRiskId }

DirectProbabilities == { 0 - Pct(5), 506000, Pct(165) }

\* DataStore.update_risk_probability called directly
call_update_risk_probability ==
    \E risk_id \in DirectRiskIds, new_probability \in DirectProbabilities :
        LET call == update_risk_probability(TheStore, risk_id, new_probability,
                                            << >>, "manual", << >>, now)
        IN  /\ now < MaxTime
            /\ Install(call.store)
            /\ request' = [op |-> "update_risk_probability", risk_id |-> risk_id,
                           new_probability |-> new_probability]
            /\ response' = IF call.raised = "none"
                           THEN Returned("update_risk_probability", call.value)
                           ELSE Raised("update_risk_probability", call.raised, call.value)
            /\ now' = IF call.raised = "none" THEN now + 1 ELSE now

\* GET /api/risks/live
handle_get_live_risks ==
    /\ request' = [op |-> "get_live_risks"]
    /\ response' = HttpOk("get_live_risks", get_live_risks(TheStore))
    /\ StoreUnchanged
    /\ UNCHANGED now

\* limit is any int of the query string: nothing bounds it from below
HistoryLimits == { 0 - 1, 1, 2 }

\* GET /api/risks/{risk_id}/history
get_risk_history(S, risk_id, limit) ==
    IF risk_id \notin DOMAIN S.risks
    THEN HttpError("get_risk_history", 404, << "Risk not found", risk_id >>)
    ELSE LET history == store_get_risk_history(S, risk_id, limit)
         IN  HttpOk("get_risk_history",
                    [risk_id |-> risk_id, updates |-> history,
                     total_updates |-> Len(history)])

handle_get_risk_history ==
    \E risk_id \in DirectRiskIds, limit \in HistoryLimits :
        /\ request' = [op |-> "get_risk_history", risk_id |-> risk_id, limit |-> limit]
        /\ response' = get_risk_history(TheStore, risk_id, limit)
        /\ StoreUnchanged
        /\ UNCHANGED now

\* GET /api/domains
handle_get_domains ==
    /\ request' = [op |-> "get_domains"]
    /\ response' = HttpOk("get_domains", get_domains(TheStore))
    /\ StoreUnchanged
    /\ UNCHANGED now

\* GET /api/risks/{risk_id} of the calculator service
handle_get_risk ==
    \E risk_id \in DirectRiskIds :
        /\ request' = [op |-> "get_risk", risk_id |-> risk_id]
        /\ response' = get_risk(risk_id)
        /\ StoreUnchanged
        /\ UNCHANGED now

\* POST /api/upload of the calculator service
handle_upload_client_data ==
    \E content \in UploadContents :
        /\ request' = [op |-> "upload_client_data", content |-> content]
        /\ response' = upload_client_data(content)
        /\ StoreUnchanged
        /\ UNCHANGED now

\* The process ends and is started again: the new DataStore() holds what the
\* files held when the process ended.
Restarted(S) ==
    IF Loadable(S)
    THEN /\ Install(_load_data(S))
         /\ request' = [op |-> "DataStore"]
         /\ response' = Returned("DataStore", "loaded")
    ELSE FALSE

\* a restart between two handlers
restart ==
    /\ Restarted(TheStore)
    /\ UNCHANGED now

\* the process dies inside update_all_probabilities (run on the shipped
\* collectors' replies), after any one of its statements, and is started again
crash_in_update_all ==
    \E replies \in { SimulatedReplies(now) } :
        LET tr == update_all_probabilities_trace(TheStore,
                                                 collect_all_signals(replies), now)
        IN  /\ now < MaxTime
            /\ \E k \in 1..Len(tr) : Restarted(tr[k])
            /\ now' = now + 1

\* the process dies inside a direct update_risk_probability, after any one
\* of its statements, and is started again
crash_in_update_risk ==
    \E risk_id \in DirectRiskIds \cap DOMAIN risks,
       new_probability \in DirectProbabilities :
        LET tr == update_risk_probability_trace(TheStore, risk_id, new_probability,
                                                << >>, "manual", << >>, now)
        IN  /\ now < MaxTime
            /\ \E k \in 1..Len(tr) : Restarted(tr[k])
            /\ now' = now + 1

\* Both services in normal operation.
Next ==
    \/ trigger_probability_update
    \/ call_update_risk_probability
    \/ handle_get_live_risks
    \/ handle_get_risk_history
    \/ handle_get_domains
    \/ handle_get_risk
    \/ handle_upload_client_data
    \/ restart

Spec == Init /\ [][Next]_vars

\* The live store when the process may also die in the middle of an update.
NextCrash ==
    \/ trigger_probability_update
    \/ call_update_risk_probability
    \/ restart
    \/ crash_in_update_all
    \/ crash_in_update_risk

SpecCrash == Init /\ [][NextCrash]_vars

\* The live service over a long life: run after run on the shipped
\* collectors, restarted now and then.
NextSignals ==
    \/ trigger_with_shipped_collectors
    \/ restart

SpecSignals == Init /\ [][NextSignals]_vars

\* The arguments tried on calculate_base_exposure: amounts per day and
\* percentages in range and out of range, and the worked example.
Criticalities == { 0 - 1, 0, 1, 40 }

Percentages == { 0, 12, 50, 100 }

OutOfRange == { 0 - 20, 150 }

BaseExposureInputs ==
    { << c, v, r, p >> : c \in Criticalities, v \in Percentages \cup OutOfRange,
                         r \in Percentages \cup OutOfRange,
                         p \in Percentages \cup OutOfRange }
    \cup { << 100000, 50, 20, 12 >> }

\* The client data tried on the calculation: two processes; assessments of
\* them, of a process that was not submitted (P9) and of a risk in no catalog,
\* two of them with equal exposure, two of the same process and risk, one
\* with a vulnerability below 0; and dependency lists without and with a
\* cycle and self-loops.
Processes ==
    << [id |-> "P1", criticality_eur_per_day |-> 100],
       [id |-> "P2", criticality_eur_per_day |-> 1] >>

Assessment(process_id, risk_id, vulnerability, resilience) ==
    [process_id |-> process_id, risk_id |-> risk_id,
     vulnerability |-> vulnerability, resilience |-> resilience]

Assessments ==
    { Assessment("P1", "P1.1", 50, 20),
      Assessment("P1", "P1.1", 40, 0),
      Assessment("P2", "P1.1", 50, 50),
      Assessment("P2", "P1.1", 12, 100),
      Assessment("P9", "P1.1", 50, 20),
      Assessment("P1", UnknownRiskId, 50, 20),
      Assessment("P2", "D1.1", 0 - 50, 20) }

Dependency(upstream_process_id, downstream_process_id, dependency_strength) ==
    [upstream_process_id |-> upstream_process_id,
     downstream_process_id |-> downstream_process_id,
     dependency_strength |-> dependency_strength]

DependencyLists ==
    { << >>,
      << Dependency("P1", "P2", Rat(1, 2)) >>,
      << Dependency("P1", "P2", Rat(1, 2)), Dependency("P1", "P9", Rat(33, 100)) >>,
      << Dependency("P1", "P2", Rat(1, 2)), Dependency("P2", "P1", Rat(33, 100)) >>,
      << Dependency("P1", "P1", Rat(1, 2)) >>,
      << Dependency("P2", "P2", Rat(33, 100)) >>,
      << Dependency("P2", "P1", Rat(33, 100)), Dependency("P1", "P1", Rat(1, 2)),
         Dependency("P1", "P2", Rat(1, 2)) >> }

AssessmentLists ==
    UNION { [1..n -> Assessments] : n \in 0..MaxAssessments }

ClientDatas ==
    { [processes |-> Processes, assessments |-> a, dependencies |-> d] :
        a \in AssessmentLists, d \in DependencyLists }

\* the calls tried on the calculator
CalculatorRequests ==
    { [op |-> "calculate_base_exposure",
       criticality_eur |-> args[1], vulnerability |-> args[2],
       resilience |-> args[3], probability |-> args[4]] : args \in BaseExposureInputs }
    \cup { [op |-> "calculate_risk_exposure", client_data |-> c, use_cascading |-> u] :
             c \in ClientDatas, u \in BOOLEAN }

\* a call that has not been answered yet
Pending == [op |-> "pending", raised |-> "none", status |-> 0, body |-> << >>]

\* The calculator service holds no state: one call arrives and is answered.
InitCalc ==
    /\ now = 1
    /\ risks = FreshStore(0).risks
    /\ updates = << >>
    /\ signals = << >>
    /\ risks_file = FreshStore(0).risks_file
    /\ updates_file = << >>
    /\ signals_file = << >>
    /\ uuids = 0
    /\ request \in CalculatorRequests
    /\ response = Pending

\* RiskCalculator.calculate_base_exposure called directly
call_calculate_base_exposure ==
    /\ request.op = "calculate_base_exposure"
    /\ response.op = "pending"
    /\ response' = Returned("calculate_base_exposure",
                            calculate_base_exposure(Whole(request.criticality_eur),
                                                    Whole(request.vulnerability),
                                                    Whole(request.resilience),
                                                    Whole(request.probability)))
    /\ StoreUnchanged
    /\ UNCHANGED << now, request >>

\* POST /api/calculate
handle_calculate_risk_exposure ==
    /\ request.op = "calculate_risk_exposure"
    /\ response.op = "pending"
    /\ response' = calculate_risk_exposure(request)
    /\ StoreUnchanged
    /\ UNCHANGED << now, request >>

\* The calculator service.
NextCalc ==
    \/ call_calculate_base_exposure
    \/ handle_calculate_risk_exposure

SpecCalc == InitCalc /\ [][NextCalc]_vars

\* The order in which collect_all_signals calls the five sources.
SourceOrder == <<"cisa", "news", "weather", "gdelt", "usgs">>

\* What the call of one collector does once the collector reads a feed over
\* the network: it returns its signals, or the call raises.
Answers(sigs) == [raised |-> "none", signals |-> sigs]

Fails == [raised |-> "ConnectionError", signals |-> << >>]

SourceOutcomes(t) ==
    { [cisa |-> c, news |-> n, weather |-> w, gdelt |-> g, usgs |-> u] :
        c \in { Answers(r) : r \in CisaReplies(t) } \cup { Fails },
        n \in { Answers(collect_news_signals(t)), Fails },
        w \in { Answers(collect_weather_signals(t)), Fails },
        g \in { Answers(collect_gdelt_signals(t)), Fails },
        u \in { Answers(collect_usgs_signals(t)), Fails } }

\* collect_all_signals, statement by statement: each extend calls the next
\* collector, and nothing catches what a collector raises, so the first
\* failure ends the collection and leaves collect_all_signals as raised
RECURSIVE collect_from(_, _, _)
collect_from(outcomes, todo, all_signals) ==
    IF todo = << >>
    THEN Returned("collect_all_signals", all_signals)
    ELSE LET outcome == outcomes[Head(todo)]
         IN  IF outcome.raised # "none"
             THEN Raised("collect_all_signals", outcome.raised, Head(todo))
             ELSE collect_from(outcomes, Tail(todo), all_signals \o outcome.signals)

collect_all_signals_from(outcomes) == collect_from(outcomes, SourceOrder, << >>)

\* POST /api/probabilities/update over sources that may fail: neither the
\* endpoint nor update_all_probabilities catches what the collection raises,
\* and the collection is the first statement of the update
trigger_from_sources ==
    \E outcomes \in SourceOutcomes(now) :
        LET collected == collect_all_signals_from(outcomes)
        IN  /\ now < MaxTime
            /\ request' = [op |-> "trigger_probability_update", outcomes |-> outcomes]
            /\ now' = now + 1
            /\ IF collected.raised # "none"
               THEN /\ response' = Raised("trigger_probability_update",
                                         collected.raised, collected.body)
                    /\ StoreUnchanged
               ELSE LET run == update_all_probabilities(TheStore, collected.body, now)
                    IN  /\ Install(run.store)
                        /\ response' = HttpOk("trigger_probability_update",
                                              [status |-> "completed",
                                               result |-> run.result])

\* The live service once its collectors read the feeds.
NextSources ==
    \/ trigger_from_sources
    \/ restart

SpecSources == Init /\ [][NextSources]_vars

(***************************************************************************)
(* Properties.                                                             *)
(***************************************************************************)
\* the signals the run that has just ended collected: the tail of the history
Collected(history, resp) == LastN(history, resp.body.result.signals_collected)

\* a list of signals without the collection times
Untimed(sigs) == [i \in 1..Len(sigs) |-> [sigs[i] EXCEPT !.timestamp = 0]]

Names(sig, r) == \E i \in 1..Len(sig.risk_ids) : sig.risk_ids[i] = r

RECURSIVE ProductOfMultipliers(_)
ProductOfMultipliers(sigs) ==
    IF sigs = << >> THEN 1
    ELSE Head(sigs).multiplier * ProductOfMultipliers(Tail(sigs))

RECURSIVE Power(_, _)
Power(b, n) == IF n = 0 THEN 1 ELSE b * Power(b, n - 1)

\* baseline x the multipliers of the signals naming r, kept within [0, 100]:
\* a whole number of points times k multipliers in hundredths, brought to
\* PScale units (the order of the operations keeps the numbers in 32 bits)
ExpectedLive(baseline, r, sigs) ==
    LET Mine(sig) == Names(sig, r)
        mine == SelectSeq(sigs, Mine)
        k == Len(mine)
        points == baseline \div PScale
        exact == IF k <= 2
                 THEN points * ProductOfMultipliers(mine) * Power(100, 2 - k)
                 ELSE (points * ProductOfMultipliers(mine)) \div Power(100, k - 2)
    IN  IF exact < 0 THEN 0 ELSE IF exact > Pct(100) THEN Pct(100) ELSE exact

\* C1: every risk of the store, in memory and in the risks file, has
\* 0 <= probability_live <= 100.
C1_LiveWithinRange ==
    /\ \A r \in DOMAIN risks :
          0 <= risks[r].probability_live /\ risks[r].probability_live <= Pct(100)
    /\ \A i \in 1..Len(risks_file) :
          0 <= risks_file[i].probability_live /\ risks_file[i].probability_live <= Pct(100)

\* a direct update asked for more than 100 and the risk now stands at 100
C1_Witness ==
    /\ request.op = "update_risk_probability"
    /\ response.raised = "none"
    /\ request.new_probability > Pct(100)
    /\ risks[request.risk_id].probability_live = Pct(100)

\* C3: when update_all_probabilities ends, every risk of the store that a
\* collected signal names stands at its baseline times the multipliers of all
\* the signals naming it, kept within [0, 100], whatever it stood at before.
C3_RecomputedFromBaseline ==
    [][ (request'.op = "trigger_probability_update" /\ now' = now + 1) =>
          \A r \in DOMAIN risks' :
              (\E i \in 1..Len(Collected(signals', response')) :
                    Names(Collected(signals', response')[i], r))
              => risks'[r].probability_live =
                    ExpectedLive(risks[r].probability_baseline, r,
                                 Collected(signals', response')) ]_vars

\* a run has just taken D1.1 from a value other than its baseline 55.0 to
\* 63.25, and S1.1, named by a 1.15 and a 1.10 signal, stands at 50.6
C3_Witness ==
    /\ request.op = "trigger_probability_update"
    /\ \E i \in 1..Len(response.body.result.updates) :
          LET e == response.body.result.updates[i] IN
          /\ e.risk_id = "D1.1"
          /\ e.probability_before # Pct(55)
          /\ e.probability_after = 632500
          /\ e.signals_count = 1
    /\ \E i \in 1..Len(updates) :
          /\ updates[i].risk_id = "S1.1"
          /\ Len(updates[i].signals) = 2
          /\ updates[i].probability_after = 506000

\* C4: a run of update_all_probabilities that directly follows a run with the
\* same signals (collection times aside) leaves every probability_live as the
\* first run left it.
C4_RepeatedRunIdempotent ==
    [][ ( /\ request.op = "trigger_probability_update"
          /\ request'.op = "trigger_probability_update"
          /\ now' = now + 1
          /\ Untimed(Collected(signals', response')) = Untimed(Collected(signals, response)) )
        => \A r \in DOMAIN risks :
              risks'[r].probability_live = risks[r].probability_live ]_vars

\* two runs in a row collected the same signals; the second changed nothing
\* although the risks no longer stood at their baselines
C4_Witness ==
    /\ request.op = "trigger_probability_update"
    /\ LET n == response.body.result.signals_collected IN
       /\ Len(signals) >= 2 * n
       /\ Untimed(SubSeq(signals, Len(signals) - 2 * n + 1, Len(signals) - n))
             = Untimed(LastN(signals, n))
    /\ response.body.result.risks_updated > 0
    /\ \A i \in 1..Len(response.body.result.updates) :
          /\ response.body.result.updates[i].change = 0
          /\ response.body.result.updates[i].probability_after
                # risks[response.body.result.updates[i].risk_id].probability_baseline

\* the audit records a step appended for risk r
AppendedFor(r, before, after) ==
    LET Mine(u) == u.risk_id = r
    IN  SelectSeq(SubSeq(after, Len(before) + 1, Len(after)), Mine)

\* C5: each update of a risk through update_risk_probability (called
\* directly or by the engine) appends exactly one audit record for the risk,
\* its probability_before the risk's probability_live before the call and its
\* probability_after the clamped value now in probability_live, and adds
\* exactly 1 to the risk's update_count.
C5_OneRecordPerUpdate ==
    [][ request'.op \in { "update_risk_probability", "trigger_probability_update" } =>
          /\ \A r \in DOMAIN risks :
                (AppendedFor(r, updates, updates') # << >> \/ risks'[r] # risks[r]) =>
                    /\ Len(AppendedFor(r, updates, updates')) = 1
                    /\ AppendedFor(r, updates, updates')[1].probability_before
                          = risks[r].probability_live
                    /\ AppendedFor(r, updates, updates')[1].probability_after
                          = risks'[r].probability_live
                    /\ risks'[r].update_count = risks[r].update_count + 1
          /\ (request'.op = "update_risk_probability" /\ now' = now + 1) =>
                /\ Len(updates') = Len(updates) + 1
                /\ Last(updates').risk_id = request'.risk_id
                /\ Last(updates').probability_after =
                      (IF request'.new_probability < 0 THEN 0
                       ELSE IF request'.new_probability > Pct(100) THEN Pct(100)
                       ELSE request'.new_probability) ]_vars

\* a risk has just been updated for the second time, to a value other than
\* the one it stood at
C5_Witness ==
    /\ request.op = "update_risk_probability"
    /\ response.raised = "none"
    /\ risks[request.risk_id].update_count = 2
    /\ Last(updates).probability_before # Last(updates).probability_after
    /\ Last(updates).probability_before # risks[request.risk_id].probability_baseline

\* C6: the audit log only grows at its end, in memory and in the updates
\* file: the log before a step is a prefix of the log after it, records
\* unchanged.
C6_AuditLogAppendOnly ==
    [][ /\ IsPrefix(updates, updates')
        /\ IsPrefix(updates_file, updates_file') ]_vars

\* the log holds records of several updates, the first of them of a risk
\* that has been updated again since
C6_Witness ==
    /\ Len(updates) > 6
    /\ Len(updates_file) = Len(updates)
    /\ \E i \in 2..Len(updates) : updates[i].risk_id = updates[1].risk_id

\* C9: update_risk_probability on a risk id the store does not hold raises
\* the not-found ValueError and leaves the store as it was, memory and files;
\* on an id the store holds it returns.  The history of an id the store does
\* not hold, and the calculator's risk of an id its table does not hold, are
\* answered 404, and only those.
C9_UnknownRiskNotFound ==
    [][ /\ request'.op = "update_risk_probability" =>
              IF request'.risk_id \in DOMAIN risks
              THEN response'.raised = "none"
              ELSE /\ response'.raised = "ValueError"
                   /\ response'.body = << "Risk not found", request'.risk_id >>
                   /\ UNCHANGED << risks, updates, signals, risks_file, updates_file,
                                   signals_file >>
        /\ request'.op = "get_risk_history" =>
              IF request'.risk_id \in DOMAIN risks
              THEN response'.status = 200 /\ response'.body.risk_id = request'.risk_id
              ELSE response'.status = 404 /\ response'.raised = "HTTPException"
        /\ request'.op = "get_risk" =>
              IF \E i \in 1..Len(RISK_DATABASE) : RISK_DATABASE[i].id = request'.risk_id
              THEN response'.status = 200 /\ response'.body.id = request'.risk_id
              ELSE response'.status = 404 /\ response'.raised = "HTTPException" ]_vars

\* an update of an unknown risk id was refused with the log already holding
\* records
C9_Witness ==
    /\ request.op = "update_risk_probability"
    /\ request.risk_id \notin DOMAIN risks
    /\ response.raised = "ValueError"
    /\ Len(updates) > 0

\* the three fields of a risk that one write sets
Triple(risk) == << risk.probability_live, risk.last_updated, risk.update_count >>

\* the three fields of the risk are those of one write: of its creation, or
\* of the write that appended the last audit record of the risk
OneWrite(risk, log) ==
    LET Mine(u) == u.risk_id = risk.id
        mine == SelectSeq(log, Mine)
    IN  IF mine = << >>
        THEN Triple(risk) = << risk.probability_baseline, 0, 0 >>
        ELSE Triple(risk) = << Last(mine).probability_after, Last(mine).timestamp,
                               Len(mine) >>

\* the risks a reload of the risks file reads all carry the three fields of
\* the store before the call or those of the store after it
FileNeverTorn(before, tr) ==
    \A k \in 1..Len(tr) : \A i \in 1..Len(tr[k].risks_file) :
        LET read == ParseRisk(tr[k].risks_file[i])
        IN  Triple(read) \in { Triple(before.risks[read.id]),
                               Triple(Last(tr).risks[read.id]) }

\* C7: no reader sees a risk whose probability_live, last_updated and
\* update_count come from different writes.  Between two handlers every risk
\* in memory and in the risks file carries the three fields of one write;
\* what get_live_risks and get_domains answer is what the store holds; and
\* at every statement boundary inside a run or a direct update started now,
\* the risks file holds for every risk the three fields it had before the
\* call or the three it has after it.  (No handler yields inside a write, so
\* the statement boundaries in memory are seen by no reader.)
C7_NoTornRisk ==
    /\ \A r \in DOMAIN risks : OneWrite(risks[r], updates)
    /\ \A i \in 1..Len(risks_file) : OneWrite(ParseRisk(risks_file[i]), updates)
    /\ request.op = "get_live_risks" =>
          \A i \in 1..Len(response.body.risks) :
              LET e == response.body.risks[i]
              IN  << e.probability_live, e.last_updated, e.update_count >>
                     = Triple(risks[e.id])
    /\ request.op = "get_domains" =>
          \A i \in 1..Len(response.body) : \A k \in 1..Len(response.body[i].risks) :
              LET e == response.body[i].risks[k]
              IN  e.probability_live = risks[e.id].probability_live
    /\ \A replies \in SourceReplies(now) :
          FileNeverTorn(TheStore,
                        update_all_probabilities_trace(TheStore,
                                                       collect_all_signals(replies), now))
    /\ \A risk_id \in DirectRiskIds \cap DOMAIN risks, p \in DirectProbabilities :
          FileNeverTorn(TheStore,
                        update_risk_probability_trace(TheStore, risk_id, p, << >>,
                                                      "manual", << >>, now))

\* the live risks were read after a risk had been written twice, the second
\* write at a later time and with another probability than the first
C7_Witness ==
    /\ request.op = "get_live_risks"
    /\ \E i \in 1..Len(response.body.risks) :
          LET e == response.body.risks[i]
              Mine(u) == u.risk_id = e.id
              mine == SelectSeq(updates, Mine)
          IN  /\ e.update_count = 2
              /\ mine[1].timestamp < e.last_updated
              /\ mine[1].probability_after # e.probability_live

\* C8 as the specification states it: an uploaded JSON object that lacks a
\* required field is answered 400.  The service answers it 500.
C8_MissingFieldIs400 ==
    ( /\ request.op = "upload_client_data"
      /\ request.content.json = "object"
      /\ request.content.fields # Range(required_fields) )
    => response.status = 400

\* C2 as the specification states it: across a crash at any statement of
\* update_risk_probability, the risks file and the updates file agree: every
\* risk's update_count in the risks file is the number of audit records of
\* the risk in the updates file, and its probability_live is the
\* probability_after of the last of them.
C2_RiskAndRecordBothOrNeither ==
    \A i \in 1..Len(risks_file) :
        LET risk == ParseRisk(risks_file[i])
            Mine(u) == u.risk_id = risk.id
            mine == SelectSeq(updates_file, Mine)
        IN  /\ risk.update_count = Len(mine)
            /\ mine # << >> => Last(mine).probability_after = risk.probability_live

\* C10 as the specification states it: a run appends all the signals it
\* collected, in collection order, to the history in memory and to the
\* persisted history, and no step removes or alters a signal stored before
\* it in either.
C10_SignalsNeverRemoved ==
    [][ /\ (request'.op = "trigger_probability_update" /\ now' = now + 1) =>
              /\ signals' = signals \o Collected(signals', response')
              /\ signals_file' = signals_file \o DumpSignals(Collected(signals', response'))
        /\ IsPrefix(signals, signals')
        /\ IsPrefix(signals_file, signals_file') ]_vars

\* C10, amended: a run appends the signals it collected (those of the five
\* sources, in the order CISA, news, weather, GDELT, USGS, none left out as
\* a duplicate) to the history in memory, and no handler removes or alters a
\* signal in memory; the persisted history is at every moment the last
\* SignalsKept signals of the history in memory, and a restart leaves in
\* memory what the persisted history held.
C10_AppendedKeepingLastThousand ==
    [][ /\ (request'.op = "trigger_probability_update" /\ now' = now + 1) =>
              signals' = signals \o collect_all_signals(SimulatedReplies(now))
        /\ request'.op = "DataStore" => signals' = LastN(signals, SignalsKept)
        /\ request'.op \notin { "trigger_probability_update", "DataStore" } =>
              signals' = signals
        /\ signals_file' = DumpSignals(LastN(signals', SignalsKept)) ]_vars

\* the history in memory has outgrown the persisted history, whose first
\* signal is no longer the first one collected
C10_Witness ==
    /\ Len(signals) > SignalsKept
    /\ Len(signals_file) = SignalsKept
    /\ ParseSignal(signals_file[1]) # signals[1]
    /\ ParseSignal(signals_file[SignalsKept]) = Last(signals)

\* C17: calculate_base_exposure(c, v, r, p) is c x (v/100) x (1 - r/100) x
\* (p/100) x 365 for every input, in range or not, nothing clamped: it is
\* the fraction (c x 365 x p / 100) x (v x (100 - r) / 10000); and 100000,
\* 50, 20, 12 give 1,752,000.
C17_BaseExposureFormula ==
    response.op = "calculate_base_exposure" =>
        /\ response.body
              = RMul(Rat(request.criticality_eur * 365 * request.probability, 100),
                     Rat(request.vulnerability * (100 - request.resilience), 10000))
        /\ ( request.criticality_eur = 100000 /\ request.vulnerability = 50
             /\ request.resilience = 20 /\ request.probability = 12 )
           => response.body = << 1752000, 1 >>
        /\ ( request.criticality_eur = 40 /\ request.vulnerability = 150
             /\ request.resilience = 0 - 20 /\ request.probability = 100 )
           => response.body = << 26280, 1 >>

\* the worked example has been computed
C17_Witness ==
    /\ response.op = "calculate_base_exposure"
    /\ request.criticality_eur = 100000
    /\ response.body = << 1752000, 1 >>

\* C18: for criticality >= 0 and vulnerability, resilience and probability
\* in [0, 100], calculate_base_exposure does not decrease when
\* vulnerability, probability or criticality grows, does not increase when
\* resilience grows, and is 0 when vulnerability is 0 or resilience is 100.
C18_BaseExposureMonotone ==
    ( /\ response.op = "calculate_base_exposure"
      /\ request.criticality_eur >= 0
      /\ { request.vulnerability, request.resilience, request.probability }
            \subseteq 0..100 )
    => LET c == request.criticality_eur
           v == request.vulnerability
           r == request.resilience
           p == request.probability
           f(cc, vv, rr, pp) ==
               calculate_base_exposure(Whole(cc), Whole(vv), Whole(rr), Whole(pp))
       IN  /\ response.body = f(c, v, r, p)
           /\ \A v2 \in Percentages : v <= v2 => RLe(response.body, f(c, v2, r, p))
           /\ \A p2 \in Percentages : p <= p2 => RLe(response.body, f(c, v, r, p2))
           /\ \A c2 \in Criticalities \cup { c + 1 } :
                  c <= c2 => RLe(response.body, f(c2, v, r, p))
           /\ \A r2 \in Percentages : r <= r2 => RLe(f(c, v, r2, p), response.body)
           /\ (v = 0 \/ r = 100) => response.body = Whole(0)

\* an exposure above 0 has been computed from values in range that can all
\* still grow
C18_Witness ==
    /\ response.op = "calculate_base_exposure"
    /\ request.criticality_eur = 1
    /\ request.vulnerability = 12
    /\ request.resilience = 50
    /\ request.probability = 12
    /\ RLe(Whole(1), response.body)

\* a calculation has been answered
Calculated == response.op = "calculate_risk_exposure"

InCatalog(a) == \E i \in 1..Len(RISK_DATABASE) : RISK_DATABASE[i].id = a.risk_id

Submitted(a) ==
    \E i \in 1..Len(request.client_data.processes) :
        request.client_data.processes[i].id = a.process_id

\* the answer to the request with only the assessments that satisfy Keep
AnswerKeeping(Keep(_)) ==
    calculate_all_exposures(
        [request.client_data EXCEPT !.assessments = SelectSeq(@, Keep)],
        request.use_cascading)

\* the record is the record of assessment a
RecordOf(e, a) ==
    /\ e.process_id = a.process_id
    /\ e.risk_id = a.risk_id
    /\ e.vulnerability = a.vulnerability
    /\ e.resilience = a.resilience

\* what the claims C12, C12 amended, say of the records and their count
OneRecordPerKnownAssessment ==
    LET assessments == request.client_data.assessments
        known == { i \in 1..Len(assessments) :
                     Submitted(assessments[i]) /\ InCatalog(assessments[i]) }
        exposures == response.body.exposures
    IN  /\ response.raised = "none"
        /\ Len(exposures) = Cardinality(known)
        /\ response.body.summary.total_risks_assessed = Cardinality(known)
        /\ \A k \in 1..Len(exposures) :
              \E i \in known : RecordOf(exposures[k], assessments[i])
        /\ \A i \in known :
              \E k \in 1..Len(exposures) : RecordOf(exposures[k], assessments[i])

\* C12 as the specification states it: an assessment whose process was not
\* submitted or whose risk is in no catalog is skipped without an error, the
\* answer holds one record per other assessment, total_risks_assessed is
\* their number, and the skipped assessments contribute to no total: the
\* answer is the answer to the request without them.
C12_SkippedContributeNothing ==
    Calculated =>
        /\ OneRecordPerKnownAssessment
        /\ LET Known(a) == Submitted(a) /\ InCatalog(a)
           IN  AnswerKeeping(Known) = response.body

\* C12, amended: skipped without an error, one record per other assessment,
\* total_risks_assessed their number; a skipped assessment adds no record,
\* and no base exposure, to any total; one skipped for its risk changes
\* nothing at all, and without cascading none does.  (With cascading, an
\* assessment skipped for its process still gives its resilience to the
\* cascading exposure of the processes upstream of it.)
C12_SkippedAddNoRecord ==
    Calculated =>
        /\ OneRecordPerKnownAssessment
        /\ AnswerKeeping(InCatalog) = response.body
        /\ LET Known(a) == Submitted(a) /\ InCatalog(a)
               kept == AnswerKeeping(Known)
           IN  /\ ~request.use_cascading => kept = response.body
               /\ kept.summary.total_base_exposure
                     = response.body.summary.total_base_exposure
               /\ Len(kept.exposures) = Len(response.body.exposures)

\* an answer of one record to three assessments, one of a process that was
\* not submitted and one of a risk in no catalog
C12_Witness ==
    /\ Calculated
    /\ Len(request.client_data.assessments) = 3
    /\ \E i \in 1..3 : ~Submitted(request.client_data.assessments[i])
    /\ \E i \in 1..3 : ~InCatalog(request.client_data.assessments[i])
    /\ Len(response.body.exposures) = 1
    /\ response.body.summary.total_overall_exposure > 0

\* the base exposure of a record, from the fields it echoes
BaseOf(e) ==
    RMul(RMul(Rat(e.criticality * 365, 100), Rat(e.probability, PScale)),
         Rat(e.vulnerability * (100 - e.resilience), 10000))

\* the index of the first assessment of the dependency's downstream process
\* for the record's risk, or 0
FirstDownstream(dep, e) ==
    LET assessments == request.client_data.assessments
        Matches(j) == /\ assessments[j].process_id = dep.downstream_process_id
                      /\ assessments[j].risk_id = e.risk_id
        all == { j \in 1..Len(assessments) : Matches(j) }
    IN  IF all = {} THEN 0 ELSE CHOOSE j \in all : \A k \in all : j <= k

\* the dependencies that carry exposure away from the record's process
Carrying(e) ==
    { i \in 1..Len(request.client_data.dependencies) :
        /\ request.client_data.dependencies[i].upstream_process_id = e.process_id
        /\ FirstDownstream(request.client_data.dependencies[i], e) # 0 }

\* the sum over the carrying dependencies of strength x (1 - resilience/100)
RECURSIVE CascadeFactor(_, _)
CascadeFactor(e, todo) ==
    IF todo = {} THEN Whole(0)
    ELSE LET i == CHOOSE x \in todo : TRUE
             dep == request.client_data.dependencies[i]
             down == request.client_data.assessments[FirstDownstream(dep, e)]
         IN  RAdd(RMul(dep.dependency_strength, Rat(100 - down.resilience, 100)),
                  CascadeFactor(e, todo \ {i}))

\* C13: with cascading enabled, the cascading exposure of a record is the sum
\* over the dependencies whose upstream is its process and whose downstream
\* process has an assessment of the same risk, of base x strength x
\* (1 - resilience/100) with the resilience of the first such assessment;
\* the other dependencies add 0; the total is base plus that sum.  (Amounts
\* as the answer carries them, rounded to cents.)
C13_CascadingIsSumOverDependencies ==
    Calculated =>
        \A k \in 1..Len(response.body.exposures) :
            LET e == response.body.exposures[k]
                cascading == IF request.use_cascading
                             THEN RMul(BaseOf(e), CascadeFactor(e, Carrying(e)))
                             ELSE Whole(0)
            IN  /\ e.base_exposure_eur = round2(BaseOf(e))
                /\ e.cascading_exposure_eur = round2(cascading)
                /\ e.total_exposure_eur = round2(RAdd(BaseOf(e), cascading))

\* a record whose cascading exposure came over two dependencies, next to a
\* dependency that carries nothing
C13_Witness ==
    /\ Calculated
    /\ request.use_cascading
    /\ \E k \in 1..Len(response.body.exposures) :
          LET e == response.body.exposures[k]
          IN  /\ Cardinality(Carrying(e)) = 2
              /\ e.cascading_exposure_eur > 0
              /\ e.total_exposure_eur = e.base_exposure_eur + e.cascading_exposure_eur
    /\ \E k \in 1..Len(response.body.exposures) :
          Carrying(response.body.exposures[k]) = {}

\* the records of the request in the order of their assessments
InInputOrder ==
    exposure_records(request.client_data, request.use_cascading,
                     request.client_data.assessments)

\* the place a stable descending sort gives the i-th record of the input:
\* after every record of a larger total_exposure_eur and after the records
\* of the same total_exposure_eur that come earlier in the input
PlaceOf(i, records) ==
    1 + Cardinality({ j \in 1..Len(records) :
                        \/ records[j].total_exposure_eur > records[i].total_exposure_eur
                        \/ /\ records[j].total_exposure_eur = records[i].total_exposure_eur
                           /\ j < i })

\* C14: the records of the answer are the records of the assessments, put in
\* descending order of total_exposure_eur, records of equal
\* total_exposure_eur in the order of their assessments in the input.
C14_SortedDescendingStable ==
    Calculated =>
        LET out == response.body.exposures
            input == InInputOrder
            n == Len(input)
        IN  /\ Len(out) = n
            /\ \A k \in 1..(n - 1) : out[k].total_exposure_eur >= out[k + 1].total_exposure_eur
            /\ \A i \in 1..n : out[PlaceOf(i, input)] = input[i]

\* three records, the two of equal total_exposure_eur different from each
\* other and submitted after the smallest one
C14_Witness ==
    /\ Calculated
    /\ Len(response.body.exposures) = 3
    /\ response.body.exposures[1].total_exposure_eur
          = response.body.exposures[2].total_exposure_eur
    /\ response.body.exposures[1] # response.body.exposures[2]
    /\ response.body.exposures[3] = InInputOrder[1]
    /\ response.body.exposures[3].total_exposure_eur
          < response.body.exposures[2].total_exposure_eur

\* C15: the per-domain total_exposure values add up to
\* summary.total_overall_exposure, within one cent per record, and the
\* per-domain counts add up to the number of records.
C15_DomainTotalsAddUp ==
    Calculated =>
        LET by_domain == response.body.by_domain
            sum == SumOf([i \in 1..Len(by_domain) |-> by_domain[i].total_exposure])
            count == SumOf([i \in 1..Len(by_domain) |-> by_domain[i].risk_count])
        IN  /\ Abs(sum - response.body.summary.total_overall_exposure)
                  <= Len(response.body.exposures)
            /\ count = Len(response.body.exposures)

\* records of two domains, two of them of the same domain
C15_Witness ==
    /\ Calculated
    /\ Len(response.body.by_domain) = 2
    /\ Len(response.body.exposures) = 3
    /\ response.body.by_domain[1].total_exposure
          + response.body.by_domain[2].total_exposure
          = response.body.summary.total_overall_exposure
    /\ response.body.by_domain[1].total_exposure # 0
    /\ response.body.by_domain[2].total_exposure # 0

\* the percentage (in tenths) is total_cascading / total_overall x 100,
\* rounded to one decimal
IsRatio(tenths, total_cascading, total_overall) ==
    2 * Abs(1000 * total_cascading - tenths * total_overall) <= Abs(total_overall)

RecordsOf(process_id, exposures) ==
    LET Mine(e) == e.process_id = process_id
    IN  SelectSeq(exposures, Mine)

\* C19: the calculation ends on every dependency list, cyclic ones and
\* self-loops included (every request is answered), and it carries exposure
\* over one edge only: the records of a process are what they are when the
\* request holds no other dependencies than those leaving the process, so
\* nothing a process received over an edge is passed on.
C19_SingleHop ==
    /\ (request.op = "calculate_risk_exposure" /\ response.op = "pending")
          => calculate_risk_exposure(request).status = 200
    /\ Calculated =>
          \A i \in 1..Len(request.client_data.processes) :
              LET process_id == request.client_data.processes[i].id
                  Leaving(dep) == dep.upstream_process_id = process_id
                  alone == calculate_all_exposures(
                               [request.client_data EXCEPT
                                   !.dependencies = SelectSeq(@, Leaving)],
                               request.use_cascading)
              IN  RecordsOf(process_id, response.body.exposures)
                     = RecordsOf(process_id, alone.exposures)

\* an answer on a cycle of two processes, each with cascading exposure
C19_Witness ==
    /\ Calculated
    /\ request.use_cascading
    /\ \E i, j \in 1..Len(request.client_data.dependencies) :
          /\ request.client_data.dependencies[i].upstream_process_id = "P1"
          /\ request.client_data.dependencies[i].downstream_process_id = "P2"
          /\ request.client_data.dependencies[j].upstream_process_id = "P2"
          /\ request.client_data.dependencies[j].downstream_process_id = "P1"
    /\ \E k, l \in 1..Len(response.body.exposures) :
          /\ response.body.exposures[k].process_id = "P1"
          /\ response.body.exposures[l].process_id = "P2"
          /\ response.body.exposures[k].cascading_exposure_eur > 0
          /\ response.body.exposures[l].cascading_exposure_eur > 0

\* the updates of the store for the risk of the request
HistoryOfRequested ==
    LET Mine(u) == u.risk_id = request.risk_id
    IN  SelectSeq(updates, Mine)

\* C20: an answered get_risk_history holds only updates of the requested
\* risk, newest first by timestamp, at most limit of them (none for a limit
\* below 0), and they are the most recent ones: as many as the risk has, up
\* to limit, and none older than an update left out.
C20_HistoryNewestFirstAtMostLimit ==
    (response.op = "get_risk_history" /\ response.status = 200) =>
        LET out == response.body.updates
            kept == Max2(request.limit, 0)
        IN  /\ \A k \in 1..Len(out) : out[k].risk_id = request.risk_id
            /\ \A k \in 1..(Len(out) - 1) : out[k].timestamp >= out[k + 1].timestamp
            /\ Len(out) <= kept
            /\ Len(out) = Min2(kept, Len(HistoryOfRequested))
            /\ \A k \in 1..Len(out) :
                  /\ \E i \in 1..Len(HistoryOfRequested) : HistoryOfRequested[i] = out[k]
                  /\ \A i \in 1..Len(HistoryOfRequested) :
                        (\A l \in 1..Len(out) : out[l] # HistoryOfRequested[i])
                        => HistoryOfRequested[i].timestamp <= out[k].timestamp

\* the signals of the sources that answered, in source order, a failed
\* source giving none
SignalsOfAnswering(outcomes) ==
    Concat([i \in 1..Len(SourceOrder) |-> outcomes[SourceOrder[i]].signals])

AuditRecordsOf(r, log) ==
    LET Mine(u) == u.risk_id = r
    IN  SelectSeq(log, Mine)

\* C21: the audit records of every risk form an unbroken chain in append
\* order: the first one starts at the probability_live the risk had on the
\* fresh store (its baseline), each later one starts where the one before
\* it ended, and the last one ends at the risk's current probability_live.
C21_AuditChainUnbroken ==
    \A r \in DOMAIN risks :
        LET chain == AuditRecordsOf(r, updates)
        IN  chain # << >> =>
                /\ chain[1].probability_before = NewRisk(r, 0).probability_live
                /\ \A k \in 2..Len(chain) :
                      chain[k].probability_before = chain[k - 1].probability_after
                /\ Last(chain).probability_after = risks[r].probability_live

\* C22: from a fresh store on, every risk's update_count is the number of
\* audit records of the risk in the log, and a completed update that leaves
\* probability_live as it was still appends a record and adds 1 to
\* update_count.
C22_UpdateCountIsRecordCount ==
    /\ \A r \in DOMAIN risks :
          risks[r].update_count = Len(AuditRecordsOf(r, updates))
    /\ ( /\ request.op = "update_risk_probability"
         /\ response.raised = "none"
         /\ Last(updates).probability_before = Last(updates).probability_after )
       => /\ Last(updates).risk_id = request.risk_id
          /\ risks[request.risk_id].update_count >= 1

\* r is named by one of the signals
NamedIn(sigs, r) == \E i \in 1..Len(sigs) : Names(sigs[i], r)

\* C23: a completed run of update_all_probabilities leaves every risk that
\* no collected signal names as it was (probability_live, last_updated and
\* update_count included) and appends no audit record for it; it changes no
\* risk's probability_baseline; and it ends without error when signals name
\* risk ids the store does not hold, writes no record for those ids and
\* counts in risks_updated only the named risks the store holds.
C23_UnnamedRisksUntouched ==
    [][ (request'.op = "trigger_probability_update" /\ now' = now + 1) =>
          LET collected == Collected(signals', response')
              named == { r \in DOMAIN risks : NamedIn(collected, r) }
          IN  /\ response'.raised = "none"
              /\ response'.status = 200
              /\ DOMAIN risks' = DOMAIN risks
              /\ \A r \in DOMAIN risks :
                    /\ risks'[r].probability_baseline = risks[r].probability_baseline
                    /\ r \notin named =>
                          /\ risks'[r] = risks[r]
                          /\ AppendedFor(r, updates, updates') = << >>
              /\ \A i \in (Len(updates) + 1)..Len(updates') :
                    updates'[i].risk_id \in named
              /\ Len(updates') = Len(updates) + Cardinality(named)
              /\ response'.body.result.risks_updated = Cardinality(named) ]_vars

\* a run has just ended whose signals name a risk id the store does not
\* hold and do not name a risk that an earlier run had moved off its
\* baseline: that risk still stands where the earlier run left it
C23_Witness ==
    /\ request.op = "trigger_probability_update"
    /\ response.status = 200
    /\ NamedIn(Collected(signals, response), UnknownRiskId)
    /\ UnknownRiskId \notin DOMAIN risks
    /\ \E r \in DOMAIN risks :
          /\ ~NamedIn(Collected(signals, response), r)
          /\ risks[r].probability_live # risks[r].probability_baseline
          /\ risks[r].update_count = 1
          /\ risks[r].last_updated < now - 1

====
